---- MODULE Spec2Model ----
(***************************************************************************)
(* Terminal-Executor backend: the Flask handlers of app.py, the Gemini     *)
(* translator of gemini_service.py and the CommandExecutor of              *)
(* command_executor.py, as one state machine.                              *)
(*                                                                         *)
(* Text is modelled by TLA+ strings, handled character by character with   *)
(* Len, SubSeq and \o.  A TLA+ string literal cannot hold a backquote, so  *)
(* the backquote character of a markdown fence is written "~" (BQ); no     *)
(* other text of the model uses "~".                                       *)
(***************************************************************************)
EXTENDS Integers, Sequences, FiniteSets, TLC

(***************************************************************************)
(* Python string primitives                                                *)
(***************************************************************************)
Ch(s, i) == SubSeq(s, i, i)

BQ == "~"

Fence == BQ \o BQ \o BQ

Whitespace == {" ", "\t", "\n", "\r"}

UpperAZ == "ABCDEFGHIJKLMNOPQRSTUVWXYZ"

LowerAZ == "abcdefghijklmnopqrstuvwxyz"

Digits == "0123456789"

Chars(s) == {SubSeq(s, i, i) : i \in 1..Len(s)}

UpperSet == Chars(UpperAZ)

LowerSet == Chars(LowerAZ)

\* the regular expression class \w
WordSet == UpperSet \cup LowerSet \cup Chars(Digits) \cup {"_"}

InStr(c, s) == \E i \in 1..Len(s) : Ch(s, i) = c

\* str.lower() of one character
LowerOf == [c \in UpperSet |-> Ch(LowerAZ, CHOOSE i \in 1..26 : Ch(UpperAZ, i) = c)]

LowerCh(c) == IF c \in UpperSet THEN LowerOf[c] ELSE c

RECURSIVE LowerFrom(_, _)
LowerFrom(s, i) ==
    IF i > Len(s) THEN "" ELSE LowerCh(Ch(s, i)) \o LowerFrom(s, i + 1)

\* str.lower()
LowerStr(s) == LowerFrom(s, 1)

IsSpaceAt(s, i) == i \in 1..Len(s) /\ Ch(s, i) \in Whitespace

IsWordAt(s, i) == i \in 1..Len(s) /\ Ch(s, i) \in WordSet

\* the regular expression assertion \b just before position i
Boundary(s, i) == IsWordAt(s, i - 1) # IsWordAt(s, i)

\* the literal lit occupies s[i .. i+Len(lit)-1]
LitAt(s, i, lit) ==
    /\ i >= 1
    /\ i + Len(lit) - 1 <= Len(s)
    /\ SubSeq(s, i, i + Len(lit) - 1) = lit

\* the first position >= i that holds no whitespace (Len(s)+1 if none)
SkipSpaces(s, i) ==
    CHOOSE j \in i..(Len(s) + 1) :
        /\ \A k \in i..(j - 1) : IsSpaceAt(s, k)
        /\ ~IsSpaceAt(s, j)

\* str.strip()
Strip(s) ==
    IF \A i \in 1..Len(s) : IsSpaceAt(s, i)
    THEN ""
    ELSE LET a == CHOOSE i \in 1..Len(s) :
                      ~IsSpaceAt(s, i) /\ \A k \in 1..(i - 1) : IsSpaceAt(s, k)
             b == CHOOSE i \in 1..Len(s) :
                      ~IsSpaceAt(s, i) /\ \A k \in (i + 1)..Len(s) : IsSpaceAt(s, k)
         IN  SubSeq(s, a, b)

\* str.split('\n')[0]
FirstLine(s) ==
    IF InStr("\n", s)
    THEN SubSeq(s, 1, (CHOOSE i \in 1..Len(s) :
                           Ch(s, i) = "\n" /\ \A k \in 1..(i - 1) : Ch(s, k) # "\n") - 1)
    ELSE s

RECURSIVE NatToStr(_)
NatToStr(n) ==
    IF n < 10 THEN Ch(Digits, n + 1)
    ELSE NatToStr(n \div 10) \o Ch(Digits, (n % 10) + 1)

\* str(n) and f"{n}" of an int
IntToStr(n) == IF n < 0 THEN "-" \o NatToStr(0 - n) ELSE NatToStr(n)

(***************************************************************************)
(* gemini_service.py: cleanup of the model's answer and the safety check   *)
(***************************************************************************)
\* re.sub(r'^```.*?\n', '', text): an opening fence line at the very start
SubOpenFence(text) ==
    IF LitAt(text, 1, Fence) /\ InStr("\n", text)
    THEN SubSeq(text, Len(FirstLine(text)) + 2, Len(text))
    ELSE text

\* re.sub(r'\n```$', '', text): $ is the end of the text, or just before a
\* newline that ends the text
SubCloseFence(text) ==
    LET n == Len(text) IN
    IF LitAt(text, n - 3, "\n" \o Fence)
    THEN SubSeq(text, 1, n - 4)
    ELSE IF LitAt(text, n - 4, "\n" \o Fence \o "\n")
    THEN SubSeq(text, 1, n - 5) \o "\n"
    ELSE text

\* lines 90-97: the result of line 90 is overwritten by line 91, which
\* starts again from command_text
clean_command_response(command_text) ==
    LET command0 == SubOpenFence(command_text)
        command1 == SubCloseFence(command_text)
        command2 == Strip(command1)
    IN  Strip(FirstLine(command2))

\* \bWORD\b somewhere in s
WordPattern(s, w) ==
    \E i \in 1..Len(s) :
        LitAt(s, i, w) /\ Boundary(s, i) /\ Boundary(s, i + Len(w))

\* \brm\s+-rf\s+/
PatRmRf(s) ==
    \E i \in 1..Len(s) :
        /\ LitAt(s, i, "rm") /\ Boundary(s, i) /\ IsSpaceAt(s, i + 2)
        /\ LET j == SkipSpaces(s, i + 2) IN
              /\ LitAt(s, j, "-rf") /\ IsSpaceAt(s, j + 3)
              /\ LitAt(s, SkipSpaces(s, j + 3), "/")

\* \bdel\s+/[sq]
PatDel(s) ==
    \E i \in 1..Len(s) :
        /\ LitAt(s, i, "del") /\ Boundary(s, i) /\ IsSpaceAt(s, i + 3)
        /\ LET j == SkipSpaces(s, i + 3) IN
              LitAt(s, j, "/s") \/ LitAt(s, j, "/q")

\* >\s*/dev/sd[a-z]
PatBlockDev(s) ==
    \E i \in 1..Len(s) :
        /\ LitAt(s, i, ">")
        /\ LET j == SkipSpaces(s, i + 1) IN
              /\ LitAt(s, j, "/dev/sd")
              /\ j + 7 <= Len(s) /\ Ch(s, j + 7) \in LowerSet

\* \bdd\s+if=.*of=/dev/
PatDd(s) ==
    \E i \in 1..Len(s) :
        /\ LitAt(s, i, "dd") /\ Boundary(s, i) /\ IsSpaceAt(s, i + 2)
        /\ LET j == SkipSpaces(s, i + 2) IN
              /\ LitAt(s, j, "if=")
              /\ \E k \in (j + 3)..Len(s) :
                    /\ LitAt(s, k, "of=/dev/")
                    /\ \A m \in (j + 3)..(k - 1) : Ch(s, m) # "\n"

\* lines 99-116; re.IGNORECASE is matching the lower-cased command
is_dangerous_command(command) ==
    LET s == LowerStr(command) IN
    \/ PatRmRf(s)
    \/ WordPattern(s, "format")
    \/ PatDel(s)
    \/ PatBlockDev(s)
    \/ PatDd(s)
    \/ WordPattern(s, "shutdown")
    \/ WordPattern(s, "reboot")
    \/ WordPattern(s, "halt")

(***************************************************************************)
(* Python values                                                           *)
(***************************************************************************)
\* Optional[str]: None is <<>>, the string s is <<s>>
None == <<>>

Some(s) == <<s>>

\* truth value of an Optional[str] in `if v:`
Truthy(v) == v # None /\ v[1] # ""

(***************************************************************************)
(* gemini_service.py: convert_natural_language_to_command                  *)
(***************************************************************************)
\* What requests.post and the decoding of its answer can do.  kind:
\*   "timeout"    requests.exceptions.Timeout
\*   "network"    another RequestException, str(e) = text
\*   "status"     an answer whose status_code is not 200, body text
\*   "no_cand"    200, JSON with no 'candidates' key or an empty list
\*   "malformed"  200, candidates[0] lacks content/parts/text: str(e) = text
\*   "text"       200, candidates[0].content.parts[0].text = text
\* shape and line record how a "text" answer was laid out.
Upstream(kind, status, text, shape, line) ==
    [kind |-> kind, status |-> status, text |-> text, shape |-> shape, line |-> line]

NoUpstream == Upstream("none", 0, "", "none", "")

\* lines 41-56, given requests.post returned or raised as `up` says
ConvertMutantNoSafetyCheck(up) ==
    CASE up.kind = "timeout"   -> <<None, Some("Gemini API request timed out")>>
      [] up.kind = "network"   -> <<None, Some("Network error: " \o up.text)>>
      [] up.kind = "status"    ->
            <<None, Some("Gemini API error: " \o IntToStr(up.status) \o " - " \o up.text)>>
      [] up.kind = "no_cand"   -> <<None, Some("No response from Gemini API")>>
      [] up.kind = "malformed" ->
            <<None, Some("Error converting natural language: " \o up.text)>>
      [] OTHER -> <<Some(clean_command_response(up.text)), None>>

ConvertMutantKeepsCommand(up) ==
    CASE up.kind = "timeout"   -> <<None, Some("Gemini API request timed out")>>
      [] up.kind = "network"   -> <<None, Some("Network error: " \o up.text)>>
      [] up.kind = "status"    ->
            <<None, Some("Gemini API error: " \o IntToStr(up.status) \o " - " \o up.text)>>
      [] up.kind = "no_cand"   -> <<None, Some("No response from Gemini API")>>
      [] up.kind = "malformed" ->
            <<None, Some("Error converting natural language: " \o up.text)>>
      [] OTHER ->
            LET command == clean_command_response(up.text) IN
            IF is_dangerous_command(command)
            THEN <<Some(command), Some("Command rejected for safety reasons.")>>
            ELSE <<Some(command), None>>

ConvertAfterPost(up) ==
    CASE up.kind = "timeout"   -> <<None, Some("Gemini API request timed out")>>
      [] up.kind = "network"   -> <<None, Some("Network error: " \o up.text)>>
      [] up.kind = "status"    ->
            <<None, Some("Gemini API error: " \o IntToStr(up.status) \o " - " \o up.text)>>
      [] up.kind = "no_cand"   -> <<None, Some("No response from Gemini API")>>
      [] up.kind = "malformed" ->
            <<None, Some("Error converting natural language: " \o up.text)>>
      [] OTHER ->
            LET command == clean_command_response(up.text) IN
            IF is_dangerous_command(command)
            THEN <<None, Some("Command rejected for safety reasons.")>>
            ELSE <<Some(command), None>>

\* lines 22-23
NotConfiguredError ==
    "Gemini API is not configured. Please set GEMINI_API_KEY in environment variables."

ConvertNotConfigured == <<None, Some(NotConfiguredError)>>

(***************************************************************************)
(* command_executor.py: the three exit paths of execute_command            *)
(***************************************************************************)
timeout == 30

FailedMsg(returncode) == "Command failed with return code " \o IntToStr(returncode)

\* lines 28-44 with success always true on a completed run
ResultCompletedMutantSuccess(command, returncode, stdout, stderr) ==
    [command |-> command, return_code |-> returncode,
     output |-> stdout, error |-> stderr, success |-> TRUE]

\* lines 28-44 without the rewrite of lines 36-42
ResultCompletedMutantNoRewrite(command, returncode, stdout, stderr) ==
    [command |-> command, return_code |-> returncode,
     output |-> stdout, error |-> stderr, success |-> returncode = 0]

\* lines 28-44 with stdout and stderr taken from each other's stream
ResultCompletedMutantSwapped(command, returncode, stdout, stderr) ==
    LET response_data ==
            [command     |-> command,
             return_code |-> returncode,
             output      |-> IF stderr # "" THEN stderr ELSE "",
             error       |-> IF stdout # "" THEN stdout ELSE "",
             success     |-> returncode = 0]
    IN  IF returncode # 0
        THEN IF stderr # ""
             THEN [response_data EXCEPT !.output = stderr,
                                        !.error = FailedMsg(returncode)]
             ELSE [response_data EXCEPT !.output = FailedMsg(returncode)]
        ELSE response_data

ResultCompleted(command, returncode, stdout, stderr) ==
    LET response_data ==
            [command     |-> command,
             return_code |-> returncode,
             output      |-> IF stdout # "" THEN stdout ELSE "",
             error       |-> IF stderr # "" THEN stderr ELSE "",
             success     |-> returncode = 0]
    IN  IF returncode # 0
        THEN IF stderr # ""
             THEN [response_data EXCEPT !.output = stderr,
                                        !.error = FailedMsg(returncode)]
             ELSE [response_data EXCEPT !.output = FailedMsg(returncode)]
        ELSE response_data

\* lines 46-53 reporting the timeout as an ordinary exit
ResultTimeoutMutant(command) ==
    [command     |-> command,
     return_code |-> 0,
     output      |-> "Command timed out (" \o IntToStr(timeout) \o " seconds)",
     error       |-> "Timeout",
     success     |-> TRUE]

ResultTimeout(command) ==
    [command     |-> command,
     return_code |-> -1,
     output      |-> "Command timed out (" \o IntToStr(timeout) \o " seconds)",
     error       |-> "Timeout",
     success     |-> FALSE]

\* lines 55-62, e the str() of the exception
ResultException(command, e) ==
    [command     |-> command,
     return_code |-> -1,
     output      |-> "Failed to execute command: " \o e,
     error       |-> e,
     success     |-> FALSE]

NoResult ==
    [command |-> "", return_code |-> 0, output |-> "", error |-> "", success |-> FALSE]

(***************************************************************************)
(* Inputs                                                                  *)
(***************************************************************************)
MaxWords == 3

Words == {"", "rm", "-rf", "/", "HALT"}

RECURSIVE Join(_)
Join(ws) ==
    IF Len(ws) = 0 THEN ""
    ELSE IF Len(ws) = 1 THEN ws[1]
    ELSE ws[1] \o " " \o Join(Tail(ws))

\* command lines the language model may answer with
Samples ==
    {"ls -la", "pwd", "del /s x", "echo hi > /dev/sda", "dd if=a of=/dev/sdb",
     "Shutdown -h now", "sudo reboot", "format c:", "reformat", "del /x"}

Lines ==
    Samples \cup {Join(ws) : ws \in UNION {[1..n -> Words] : n \in 0..MaxWords}}

Shapes == {"plain", "fenced", "fenced_lang", "fenced_nl", "explained", "padded"}

FencedShapes == {"fenced", "fenced_lang", "fenced_nl"}

\* the text of an answer that carries the command line `line` in shape `shape`
Layout(shape, line) ==
    CASE shape = "plain"       -> line
      [] shape = "fenced"      -> Fence \o "\n" \o line \o "\n" \o Fence
      [] shape = "fenced_lang" -> Fence \o "bash\n" \o line \o "\n" \o Fence
      [] shape = "fenced_nl"   -> Fence \o "\n" \o line \o "\n" \o Fence \o "\n"
      [] shape = "explained"   -> line \o "\nThis command does it."
      [] OTHER                 -> " \t" \o line \o " \r\n"

UpstreamErrors ==
    {Upstream("timeout", 0, "", "none", ""),
     Upstream("network", 0, "Connection refused", "none", ""),
     Upstream("network", 0, "", "none", ""),
     Upstream("status", 500, "internal", "none", ""),
     Upstream("status", 429, "", "none", ""),
     Upstream("no_cand", 200, "", "none", ""),
     Upstream("malformed", 200, "'content'", "none", ""),
     Upstream("malformed", 200, "list index out of range", "none", "")}

UpstreamTexts ==
    {Upstream("text", 200, Layout(sh, l), sh, l) : sh \in Shapes, l \in Lines}

UpstreamBehaviours == UpstreamErrors \cup UpstreamTexts

\* a JSON value under a key: absent, a string, or something that is no string
Missing == [t |-> "missing", v |-> ""]

NonString == [t |-> "other", v |-> ""]

Str(s) == [t |-> "str", v |-> s]

DirectCommands == {"", " \t", "ls -la", " echo hello \n", "rm -rf /", "false"}

Queries == {"", "  ", " list files "}

\* request.get_json(): null is no JSON body or a falsy one
JsonBodies ==
    {[null |-> TRUE, cmd |-> Missing, query |-> Missing]} \cup
    {[null |-> FALSE, cmd |-> c, query |-> Missing] :
        c \in {Missing, NonString} \cup {Str(d) : d \in DirectCommands}} \cup
    {[null |-> FALSE, cmd |-> Missing, query |-> q] :
        q \in {NonString} \cup {Str(d) : d \in Queries}}

ReturnCodes == {0, 1, 2, 127, -9}

Stdouts == {"", "hello\n"}

Stderrs == {"", "no such file"}

LaunchErrors == {"[Errno 2] No such file or directory: '/bin/sh'", "embedded null byte"}

DecodeErrors == {"'utf-8' codec can't decode byte 0xff in position 0: invalid start byte"}

(***************************************************************************)
(* app.py: what a handler answers                                          *)
(***************************************************************************)
Http(status, body) == [status |-> status, body |-> body]

NoResponse == Http(0, [mode |-> "none"])

Respond(r) == [kind |-> "respond", response |-> r, command |-> ""]

Execute(c) == [kind |-> "execute", response |-> NoResponse, command |-> c]

AttributeErrorText == "'NoneType' object has no attribute 'strip'"

\* app.py lines 24-33 without the strip() of line 28
ValidateExecuteMutantNoStrip(data) ==
    IF data.null \/ data.cmd = Missing
    THEN Respond(Http(400, [error |-> "No command provided"]))
    ELSE IF data.cmd.t # "str"
    THEN Respond(Http(500, [error |-> "Server error: " \o AttributeErrorText]))
    ELSE IF data.cmd.v = ""
         THEN Respond(Http(400, [error |-> "Empty command"]))
         ELSE Execute(data.cmd.v)

\* app.py lines 24-33 and 44-45
ValidateExecute(data) ==
    IF data.null \/ data.cmd = Missing
    THEN Respond(Http(400, [error |-> "No command provided"]))
    ELSE IF data.cmd.t # "str"
    THEN Respond(Http(500, [error |-> "Server error: " \o AttributeErrorText]))
    ELSE LET command == Strip(data.cmd.v) IN
         IF command = ""
         THEN Respond(Http(400, [error |-> "Empty command"]))
         ELSE Execute(command)

\* app.py lines 52-58 and 95-96; "execute" here means: go on to translate
ValidateQuery(data) ==
    IF data.null \/ data.query = Missing
    THEN Respond(Http(400, [error |-> "No query provided"]))
    ELSE IF data.query.t # "str"
    THEN Respond(Http(500, [error |-> "Server error: " \o AttributeErrorText]))
    ELSE LET q == Strip(data.query.v) IN
         IF q = ""
         THEN Respond(Http(400, [error |-> "Empty query"]))
         ELSE Execute(q)

\* app.py lines 65-82 without the check of lines 72-77
AfterTranslationMutantNoEmptyCheck(q, pair) ==
    LET converted_command == pair[1]
        error == pair[2]
    IN  IF Truthy(error)
        THEN Respond(Http(400, [error |-> error[1], original_query |-> q,
                                mode |-> "natural_language"]))
        ELSE Execute(converted_command[1])

\* app.py lines 65-82
AfterTranslation(q, pair) ==
    LET converted_command == pair[1]
        error == pair[2]
    IN  IF Truthy(error)
        THEN Respond(Http(400, [error |-> error[1], original_query |-> q,
                                mode |-> "natural_language"]))
        ELSE IF ~Truthy(converted_command)
        THEN Respond(Http(400, [error |-> "Could not convert query to command",
                                original_query |-> q, mode |-> "natural_language"]))
        ELSE Execute(converted_command[1])

\* app.py lines 35-42 and 84-93
ExecutionResponse(endpoint, q, r) ==
    IF endpoint = "/execute"
    THEN Http(200, [command |-> r.command, return_code |-> r.return_code,
                    output |-> r.output, error |-> r.error, success |-> r.success,
                    mode |-> "manual"])
    ELSE Http(200, [original_query |-> q, converted_command |-> r.command,
                    command |-> r.command, return_code |-> r.return_code,
                    output |-> r.output, error |-> r.error, success |-> r.success,
                    mode |-> "natural_language"])

\* app.py lines 101-110
HealthResponse(configured) ==
    Http(200, [status |-> "healthy", gemini_configured |-> configured,
               gemini |-> IF configured THEN "configured" ELSE "not_configured",
               command_executor |-> "ready"])

(***************************************************************************)
(* State                                                                   *)
(***************************************************************************)
VARIABLES
    is_configured,    \* GeminiService.is_configured
    pc,               \* where the request in progress stands
    endpoint,         \* its route
    data,             \* its JSON body
    query,            \* process_natural_language's local `query`
    translator_calls, \* the texts convert_natural_language_to_command was called with
    upstream,         \* what requests.post did for this request
    translation,      \* the pair the translator returned
    exec_calls,       \* the commands CommandExecutor.execute_command was called with
    child,            \* the shell process of subprocess.run
    descendants,      \* whether processes started by that shell are running
    outcome,          \* how subprocess.run ended
    result,           \* the dictionary execute_command returned
    response          \* the HTTP response of the request

vars ==
    <<is_configured, pc, endpoint, data, query, translator_calls, upstream,
      translation, exec_calls, child, descendants, outcome, result, response>>

NoData == [null |-> TRUE, cmd |-> Missing, query |-> Missing]

NoOutcome == [path |-> "none", returncode |-> 0, stdout |-> "", stderr |-> ""]

NoTranslation == <<None, None>>

Init ==
    /\ is_configured \in BOOLEAN
    /\ pc = "idle"
    /\ endpoint = "none"
    /\ data = NoData
    /\ query = ""
    /\ translator_calls = <<>>
    /\ upstream = NoUpstream
    /\ translation = NoTranslation
    /\ exec_calls = <<>>
    /\ child = "none"
    /\ descendants = FALSE
    /\ outcome = NoOutcome
    /\ result = NoResult
    /\ response = NoResponse

\* a request arrives while the server is waiting for one
Fresh(ep, d) ==
    /\ pc = "idle"
    /\ endpoint' = ep
    /\ data' = d
    /\ child' = "none"
    /\ descendants' = FALSE
    /\ outcome' = NoOutcome
    /\ result' = NoResult
    /\ UNCHANGED is_configured

\* the handler goes on as `step` says: answer now, or enter execute_command
Proceed(step) ==
    IF step.kind = "respond"
    THEN /\ pc' = "done"
         /\ response' = step.response
         /\ exec_calls' = <<>>
    ELSE /\ pc' = "executing"
         /\ response' = NoResponse
         /\ exec_calls' = <<step.command>>

(***************************************************************************)
(* POST /execute (app.py lines 19-45)                                      *)
(***************************************************************************)
PostExecute ==
    /\ pc = "idle"
    /\ \E d \in JsonBodies :
          /\ Fresh("/execute", d)
          /\ query' = ""
          /\ translator_calls' = <<>>
          /\ upstream' = NoUpstream
          /\ translation' = NoTranslation
          /\ Proceed(ValidateExecute(d))

(***************************************************************************)
(* POST /natural-language (app.py lines 47-96)                             *)
(***************************************************************************)
PostNaturalLanguage ==
    /\ pc = "idle"
    /\ \E d \in JsonBodies :
          /\ Fresh("/natural-language", d)
          /\ upstream' = NoUpstream
          /\ LET v == ValidateQuery(d) IN
             IF v.kind = "respond"
             THEN /\ query' = ""
                  /\ translator_calls' = <<>>
                  /\ translation' = NoTranslation
                  /\ Proceed(v)
             ELSE /\ query' = v.command
                  /\ translator_calls' = <<v.command>>
                  /\ IF is_configured
                     THEN \* requests.post is in flight
                          /\ pc' = "translating"
                          /\ translation' = NoTranslation
                          /\ response' = NoResponse
                          /\ exec_calls' = <<>>
                     ELSE /\ translation' = ConvertNotConfigured
                          /\ Proceed(AfterTranslation(v.command, ConvertNotConfigured))

\* requests.post returns or raises; the translator and the handler go on
UpstreamResponds ==
    /\ pc = "translating"
    /\ \E up \in UpstreamBehaviours :
          /\ upstream' = up
          /\ translation' = ConvertAfterPost(up)
          /\ Proceed(AfterTranslation(query, ConvertAfterPost(up)))
          /\ UNCHANGED <<is_configured, endpoint, data, query, translator_calls,
                         child, descendants, outcome, result>>

(***************************************************************************)
(* CommandExecutor.execute_command (command_executor.py lines 9-62)        *)
(***************************************************************************)
Finish(o, r) ==
    /\ pc' = "done"
    /\ outcome' = o
    /\ result' = r
    /\ response' = ExecutionResponse(endpoint, query, r)
    /\ UNCHANGED <<is_configured, endpoint, data, query, translator_calls,
                   upstream, translation, exec_calls>>

\* subprocess.run cannot start the shell: the except Exception path
LaunchFails ==
    /\ pc = "executing"
    /\ \E e \in LaunchErrors :
          /\ Finish([path |-> "exception", returncode |-> 0, stdout |-> "", stderr |-> e],
                    ResultException(exec_calls[1], e))
          /\ UNCHANGED <<child, descendants>>

\* subprocess.run starts the shell on the command
Spawn ==
    /\ pc = "executing"
    /\ pc' = "running"
    /\ child' = "running"
    /\ UNCHANGED <<is_configured, endpoint, data, query, translator_calls, upstream,
                   translation, exec_calls, descendants, outcome, result, response>>

\* the shell starts processes of its own
ShellForks ==
    /\ pc = "running"
    /\ ~descendants
    /\ descendants' = TRUE
    /\ UNCHANGED <<is_configured, pc, endpoint, data, query, translator_calls,
                   upstream, translation, exec_calls, child, outcome, result,
                   response>>

\* the shell exits before the timeout
ChildExits ==
    /\ pc = "running"
    /\ \E returncode \in ReturnCodes, stdout \in Stdouts, stderr \in Stderrs,
          left \in BOOLEAN :
          /\ child' = "exited"
          /\ descendants' = (descendants /\ left)
          /\ Finish([path |-> "completed", returncode |-> returncode,
                     stdout |-> stdout, stderr |-> stderr],
                    ResultCompleted(exec_calls[1], returncode, stdout, stderr))

\* the timeout of subprocess.run expires: run() kills the shell, waits for it
\* and raises TimeoutExpired; processes the shell started are not signalled
TimeoutExpires ==
    /\ pc = "running"
    /\ child' = "killed"
    /\ UNCHANGED descendants
    /\ Finish([path |-> "timeout", returncode |-> 0, stdout |-> "", stderr |-> ""],
              ResultTimeout(exec_calls[1]))

\* the captured output cannot be decoded: subprocess.run kills the shell and
\* the except Exception path is taken
CommunicateFails ==
    /\ pc = "running"
    /\ \E e \in DecodeErrors :
          /\ child' = "killed"
          /\ UNCHANGED descendants
          /\ Finish([path |-> "exception", returncode |-> 0, stdout |-> "", stderr |-> e],
                    ResultException(exec_calls[1], e))

(***************************************************************************)
(* GET /health (app.py lines 98-110)                                       *)
(***************************************************************************)
Health ==
    /\ Fresh("/health", NoData)
    /\ query' = ""
    /\ translator_calls' = <<>>
    /\ upstream' = NoUpstream
    /\ translation' = NoTranslation
    /\ exec_calls' = <<>>
    /\ pc' = "done"
    /\ response' = HealthResponse(is_configured)

(***************************************************************************)
(* The response is sent and the handler's locals are gone; processes the   *)
(* shell left behind are not the server's any more.                        *)
(***************************************************************************)
Deliver ==
    /\ pc = "done"
    /\ pc' = "idle"
    /\ endpoint' = "none"
    /\ data' = NoData
    /\ query' = ""
    /\ translator_calls' = <<>>
    /\ upstream' = NoUpstream
    /\ translation' = NoTranslation
    /\ exec_calls' = <<>>
    /\ child' = "none"
    /\ descendants' = FALSE
    /\ outcome' = NoOutcome
    /\ result' = NoResult
    /\ response' = NoResponse
    /\ UNCHANGED is_configured

Next ==
    \/ PostExecute
    \/ PostNaturalLanguage
    \/ UpstreamResponds
    \/ LaunchFails
    \/ Spawn
    \/ ShellForks
    \/ ChildExits
    \/ TimeoutExpires
    \/ CommunicateFails
    \/ Health
    \/ Deliver

Spec == Init /\ [][Next]_vars

(***************************************************************************)
(* Properties                                                              *)
(***************************************************************************)
OnExecute == endpoint = "/execute"

OnNaturalLanguage == endpoint = "/natural-language"

\* the translator has returned its pair for this request
Translated == translator_calls # <<>> /\ pc # "translating"

\* execute_command has returned for this request
Executed == outcome.path # "none"

Contains(s, lit) == \E i \in 1..Len(s) : LitAt(s, i, lit)

HasError(r) == "error" \in DOMAIN r.body /\ r.body.error # ""

\* the upstream answer carried a command that the denylist matches after cleanup
DangerousAnswer ==
    /\ upstream.kind = "text"
    /\ is_dangerous_command(clean_command_response(upstream.text))

\* C1: on the natural-language path a translated command that matches the
\* denylist after cleanup is never handed to execute_command and the request
\* is answered 400 with the fixed rejection reason; every command executed on
\* that path is one the safety check does not match.
C1_DangerousNeverExecuted ==
    /\ (OnNaturalLanguage /\ DangerousAnswer) =>
          /\ pc = "done"
          /\ exec_calls = <<>>
          /\ child = "none"
          /\ response.status = 400
          /\ response.body.error = "Command rejected for safety reasons."
    /\ (OnNaturalLanguage /\ exec_calls # <<>>) =>
          /\ upstream.kind = "text"
          /\ exec_calls[1] = clean_command_response(upstream.text)
          /\ ~is_dangerous_command(exec_calls[1])

C1_Witness ==
    /\ OnNaturalLanguage /\ pc = "done" /\ DangerousAnswer
    /\ upstream.line = "rm -rf /" /\ upstream.shape = "explained"
    /\ response.status = 400

\* the translation of this request failed: no credentials, or an upstream
\* failure, or an answer that is empty or whitespace only
TranslationFails ==
    \/ ~is_configured
    \/ upstream.kind \in {"timeout", "network", "status", "no_cand", "malformed"}
    \/ upstream.kind = "text" /\ Strip(upstream.text) = ""

\* C2: a natural-language request with a non-empty query whose translation
\* fails is answered 400 with a non-empty error and the original query, and
\* execute_command is never called (no child process); without an API key the
\* error says that the translator is not configured.
C2_TranslationFailureIs400 ==
    (OnNaturalLanguage /\ Translated /\ TranslationFails) =>
        /\ pc = "done"
        /\ response.status = 400
        /\ HasError(response)
        /\ response.body.original_query = query
        /\ query = Strip(data.query.v) /\ query # ""
        /\ exec_calls = <<>>
        /\ child = "none"
        /\ ~is_configured => Contains(response.body.error, "is not configured")

C2_Witness ==
    /\ OnNaturalLanguage /\ Translated /\ pc = "done"
    /\ is_configured
    /\ upstream.kind = "text" /\ upstream.text = " \t \r\n"
    /\ response.status = 400

\* the cmd of the body is missing, or empty once trimmed
CmdMissingOrEmpty ==
    \/ data.null
    \/ data.cmd = Missing
    \/ data.cmd.t = "str" /\ Strip(data.cmd.v) = ""

QueryMissingOrEmpty ==
    \/ data.null
    \/ data.query = Missing
    \/ data.query.t = "str" /\ Strip(data.query.v) = ""

\* C3: POST /execute with a missing or empty cmd and POST /natural-language
\* with a missing or empty query are answered 400 with a non-empty error and
\* reach neither the translator nor the executor; the executor is never called
\* with a command that is empty after trimming.
C3_InvalidInputIs400 ==
    /\ ((OnExecute /\ CmdMissingOrEmpty) \/ (OnNaturalLanguage /\ QueryMissingOrEmpty)) =>
          /\ pc = "done"
          /\ response.status = 400
          /\ HasError(response)
          /\ translator_calls = <<>>
          /\ exec_calls = <<>>
          /\ child = "none"
    /\ \A i \in 1..Len(exec_calls) : Strip(exec_calls[i]) # ""

C3_Witness ==
    /\ OnExecute /\ pc = "done"
    /\ data.cmd = Str(" \t")
    /\ response.status = 400

\* C4: in every result of execute_command the error field is non-empty
\* exactly when success is false.
C4_ErrorIffFailure ==
    Executed => ((result.error # "") <=> ~result.success)

\* C5: on every exit path of execute_command (completion, timeout, exception)
\* the returned record has success = (return_code = 0).
C5_SuccessIffZero ==
    Executed =>
        /\ result.success = (result.return_code = 0)
        /\ outcome.path = "completed" => result.return_code = outcome.returncode

C5_Witness ==
    /\ Executed /\ outcome.path = "completed"
    /\ outcome.returncode = 127 /\ ~result.success

\* C6: when the 30 second timeout expires with the child still running,
\* execute_command returns return_code -1, output 'Command timed out (30
\* seconds)', error 'Timeout', success false, and the child it spawned is no
\* longer running.
C6_TimeoutResult ==
    (Executed /\ outcome.path = "timeout") =>
        /\ result = [command     |-> exec_calls[1],
                     return_code |-> -1,
                     output      |-> "Command timed out (30 seconds)",
                     error       |-> "Timeout",
                     success     |-> FALSE]
        /\ child = "killed"

C6_Witness ==
    /\ Executed /\ outcome.path = "timeout" /\ pc = "done"
    /\ descendants
    /\ response.body.error = "Timeout"

ExpectedFailure(n) ==
    CASE n = 1   -> "Command failed with return code 1"
      [] n = 2   -> "Command failed with return code 2"
      [] n = 127 -> "Command failed with return code 127"
      [] n = -9  -> "Command failed with return code -9"
      [] OTHER   -> "Command failed with return code " \o IntToStr(n)

\* C8: after a non-zero exit code N, with stderr text the output is exactly
\* that text and the error is 'Command failed with return code N'; without
\* stderr text the output is 'Command failed with return code N'; in both
\* cases return_code = N and success is false.
C8_FailureFields ==
    (Executed /\ outcome.path = "completed" /\ outcome.returncode # 0) =>
        /\ outcome.stderr # "" =>
              /\ result.output = outcome.stderr
              /\ result.error = ExpectedFailure(outcome.returncode)
        /\ outcome.stderr = "" =>
              result.output = ExpectedFailure(outcome.returncode)
        /\ result.return_code = outcome.returncode
        /\ ~result.success

C8_Witness ==
    /\ Executed /\ outcome.path = "completed" /\ outcome.returncode = -9
    /\ outcome.stdout = "hello\n" /\ outcome.stderr = "no such file"
    /\ result.output = "no such file"

CommandOnly(pair) == Truthy(pair[1]) /\ pair[2] = None

ErrorOnly(pair) == pair[1] = None /\ Truthy(pair[2])

C10_FenceStripped ==
    (Translated /\ upstream.kind = "text" /\ CommandOnly(translation)) =>
        /\ ~Contains(translation[1][1], Fence)
        /\ ~Contains(translation[1][1], "\n")
        /\ (upstream.shape \in FencedShapes /\ Strip(upstream.line) # "") =>
              translation[1][1] = Strip(upstream.line)
====
